---- MODULE Spec2Model ----
(***************************************************************************)
(* rename_fonts.py: for each style, load ./input/<Style>.ttf, drop its     *)
(* gasp table, and for each region rename the font and export one TTF;     *)
(* then merge the style's TTFs into one TTC.                               *)
(*                                                                         *)
(* A Python str is a TLA+ string, except the region codes, which are kept  *)
(* as sequences of one-character strings so that str.lower() is computed   *)
(* character by character.  The long metadata constants are ASCII; the     *)
(* non-ASCII characters of the source strings are transliterated.          *)
(***************************************************************************)
EXTENDS Integers, Sequences, FiniteSets, TLC

VARIABLES
    isfile,     \* the paths for which os.path.isfile is true (fixed during a run)
    pc,         \* position of rename_fonts
    style_i,    \* index in _STYLES of the style the for statement is at
    region_i,   \* index in _REGIONS of the region the inner for statement is at
    font,       \* the local variable font: None or a reference into heap
    heap,       \* the live font objects: reference -> attributes
    ttf_paths,  \* the local variable ttf_paths
    opened,     \* the paths given to fontforge.open, in order
    loaded,     \* the font the last fontforge.open returned, as it was on return: <<>> or <<f>>
    written,    \* the files written, in order: [path, content]
    merges,     \* the argument lists given to otf2otc's run, in order
    log,        \* the records given to the logger, in order
    trace       \* the steps of the run, in order: [op, style, region]

vars == <<isfile, pc, style_i, region_i, font, heap, ttf_paths, opened, loaded,
          written, merges, log, trace>>

-----------------------------------------------------------------------------
(* Module constants, lines 11-29 *)

_FONT_COPYRIGHT == "(c) 2014-2021 Adobe (http://www.adobe.com/)."
_FONT_VERSION == "Version 2.004;hotconv 1.0.118;makeotfexe 2.5.65603"
_FONT_TRADEMARK == "Noto is a trademark of Google Inc."
_FONT_MANUFACTURER == "Adobe"
_FONT_DESIGNER == "Ryoko NISHIZUKA (kana, bopomofo &amp; ideographs); Paul D. Hunt (Latin, Greek &amp; Cyrillic); Sandoll Communications, Soo-young JANG &amp; Joo-yeon KANG (hangul elements, letters &amp; syllables)"

_STYLES == <<"Regular", "Thin", "Light", "Medium", "Bold", "Black">>
_REGIONS == << <<"J", "P">>, <<"K", "R">>, <<"S", "C">>, <<"T", "C">>, <<"H", "K">> >>

\* os.path.join(a, b) for a relative b and an a that does not end in "/"
join(a, b) == a \o "/" \o b

_INPUT_DIR == "./input"
_OUTPUT_DIR == "./output"
_TTF_OUTPUT_DIR == join(_OUTPUT_DIR, "ttf")
_TTC_OUTPUT_DIR == join(_OUTPUT_DIR, "ttc")

None == "None"

-----------------------------------------------------------------------------
(* Strings *)

RECURSIVE str(_)
\* the Python str of a sequence of characters
str(cs) == IF cs = <<>> THEN "" ELSE Head(cs) \o str(Tail(cs))

ascii_lowercase ==
    [A |-> "a", B |-> "b", C |-> "c", D |-> "d", E |-> "e", F |-> "f", G |-> "g",
     H |-> "h", I |-> "i", J |-> "j", K |-> "k", L |-> "l", M |-> "m", N |-> "n",
     O |-> "o", P |-> "p", Q |-> "q", R |-> "r", S |-> "s", T |-> "t", U |-> "u",
     V |-> "v", W |-> "w", X |-> "x", Y |-> "y", Z |-> "z"]

\* str.lower(): every cased character is mapped to its lower case
lower(cs) ==
    [k \in DOMAIN cs |->
        IF cs[k] \in DOMAIN ascii_lowercase THEN ascii_lowercase[cs[k]] ELSE cs[k]]

-----------------------------------------------------------------------------
(* The files ./input may hold.  What a font file holds before the run is   *)
(* not fixed by the program: two fonts of different origin stand for it,   *)
(* one with a gasp table and a full name table (Preferred entries          *)
(* included), one with neither.                                            *)

InputFonts ==
    { [fontname |-> "SourceHanSans-Light",
       fullname |-> "Source Han Sans Light",
       familyname |-> "Source Han Sans Light",
       version |-> "Version 1.000",
       copyright |-> "Copyright 2014 Adobe",
       sfnt_names |-> << <<"English (US)", "Family", "Source Han Sans Light">>,
                         <<"English (US)", "UniqueID", "1.000;ADBO;SourceHanSans-Light">>,
                         <<"English (US)", "Preferred Family", "Source Han Sans">>,
                         <<"English (US)", "Preferred Styles", "Light">>,
                         <<"Japanese", "Family", "Source Han Sans JP">> >>,
       gasp |-> << <<8, <<"antialias">> >>, <<65535, <<"gridfit", "antialias">> >> >>],
      [fontname |-> "Untitled1",
       fullname |-> "Untitled1",
       familyname |-> "Untitled1",
       version |-> "001.000",
       copyright |-> "",
       sfnt_names |-> <<>>,
       gasp |-> <<>>] }

\* what a file holds
TtfFile(f) == [kind |-> "ttf", font |-> f]
TtcFile(paths) == [kind |-> "ttc", members |-> paths]
PartialFile == [kind |-> "partial"]

-----------------------------------------------------------------------------
(* The functions of the script *)

\* (a remove_gasp that leaves the table as it is)
remove_gasp_keeps(f) == f

\* remove_gasp, lines 41-45
remove_gasp(f) == [f EXCEPT !.gasp = <<>>]

\* (a FullName that drops the style for Bold too)
fullname_drops_bold(region, style) ==
    IF style \in {"Regular", "Bold"}
    THEN "Noto Sans CJK " \o str(region)
    ELSE "Noto Sans CJK " \o str(region) \o " " \o style

\* lines 56-60: the value given to font.fullname
fullname_of(region, style) ==
    IF style = "Regular"
    THEN "Noto Sans CJK " \o str(region)
    ELSE "Noto Sans CJK " \o str(region) \o " " \o style

\* (a test that takes only Regular for a plain style)
regular_only(style) == style \in {"Regular"}

\* line 61: style in ["Regular", "Bold"]
regular_or_bold(style) == style \in {"Regular", "Bold"}

\* (an assignment that extends the name table instead of replacing it)
extend_sfnt_names(f, names) == [f EXCEPT !.sfnt_names = f.sfnt_names \o names]

\* line 101: font.sfnt_names = tuple(font_sfnt_name_list)
assign_sfnt_names(f, names) == [f EXCEPT !.sfnt_names = names]

\* set_font_name, lines 48-101: the attributes of the font after the call.
\* region is a sequence of characters, style a string.
set_font_name(f, region, style) ==
    LET region_lc == lower(region)
        fontname == "NotoSansCJK" \o str(region_lc) \o "-" \o style
        fullname == fullname_of(region, style)
        familyname == IF regular_or_bold(style)
                      THEN "Noto Sans CJK " \o str(region)
                      ELSE "Noto Sans CJK " \o str(region) \o " " \o style
        font_subfamily == IF regular_or_bold(style) THEN style ELSE "Regular"
        font_preferredfamily == IF regular_or_bold(style)
                                THEN None
                                ELSE "Noto Sans CJK " \o str(region)
        font_preferredsubfamily == IF regular_or_bold(style) THEN None ELSE style
        font_unique_id == "2.004;GOOG;NotoSansCJK" \o str(region_lc) \o "-" \o style \o ";ADOBE"
        named == [f EXCEPT !.fontname = fontname,
                           !.fullname = fullname,
                           !.familyname = familyname,
                           !.version = _FONT_VERSION,
                           !.copyright = _FONT_COPYRIGHT]
        font_sfnt_name_list ==
            << <<"English (US)", "Family", named.familyname>>,
               <<"English (US)", "Fullname", named.fullname>>,
               <<"English (US)", "UniqueID", font_unique_id>>,
               <<"English (US)", "SubFamily", font_subfamily>>,
               <<"English (US)", "Version", named.version>>,
               <<"English (US)", "Copyright", named.copyright>>,
               <<"English (US)", "Trademark", _FONT_TRADEMARK>>,
               <<"English (US)", "Manufacturer", _FONT_MANUFACTURER>>,
               <<"English (US)", "Designer", _FONT_DESIGNER>> >>
        preferred ==
            IF font_preferredfamily # None /\ font_preferredsubfamily # None
            THEN << <<"English (US)", "Preferred Family", font_preferredfamily>>,
                    <<"English (US)", "Preferred Styles", font_preferredsubfamily>> >>
            ELSE <<>>
    IN  assign_sfnt_names(named, font_sfnt_name_list \o preferred)

\* make_ttc, lines 104-112: the argument list it builds for run_otf2otc
make_ttc_args(paths, output_ttc_path) == <<"-o", output_ttc_path>> \o paths

\* line 123
font_path(style) == join(_INPUT_DIR, style \o ".ttf")

\* (an output path that keeps the region in upper case)
output_font_path_upper(region, style) ==
    join(_TTF_OUTPUT_DIR, "NotoSansCJK" \o str(region) \o "-" \o style \o ".ttf")

\* lines 138-140
output_font_path(region, style) ==
    join(_TTF_OUTPUT_DIR, "NotoSansCJK" \o str(lower(region)) \o "-" \o style \o ".ttf")

\* line 147
ttc_path(style) == join(_TTC_OUTPUT_DIR, "NotoSansCJK-" \o style \o ".ttc")

\* the reference of the font object fontforge.open returns for a path
FontRef(path) == "font:" \o path

-----------------------------------------------------------------------------
(* rename_fonts, lines 117-152 *)

style == _STYLES[style_i]
region == _REGIONS[region_i]

Event(op, s, r) == [op |-> op, style |-> s, region |-> r]

\* The input directory holds any subset of the style files.
Init ==
    /\ isfile \in SUBSET {font_path(_STYLES[k]) : k \in DOMAIN _STYLES}
    /\ pc = "for"
    /\ style_i = 1
    /\ region_i = 1
    /\ font = None
    /\ heap = <<>>
    /\ ttf_paths = <<>>
    /\ opened = <<>>
    /\ loaded = <<>>
    /\ written = <<>>
    /\ merges = <<>>
    /\ log = <<>>
    /\ trace = <<>>

\* (a loop that keeps one ttf_paths list for all styles)
NextStyleKeepsPaths ==
    /\ pc = "for"
    /\ style_i <= Len(_STYLES)
    /\ log' = Append(log, [level |-> "info",
                           msg |-> "Loading font from: " \o font_path(style) \o "."])
    /\ pc' = "isfile"
    /\ UNCHANGED <<isfile, style_i, region_i, font, heap, ttf_paths, opened, loaded,
                   written, merges, trace>>

\* lines 121-124: the for statement takes the next style; ttf_paths is a
\* new list; the path is logged.
NextStyle ==
    /\ pc = "for"
    /\ style_i <= Len(_STYLES)
    /\ ttf_paths' = <<>>
    /\ log' = Append(log, [level |-> "info",
                           msg |-> "Loading font from: " \o font_path(style) \o "."])
    /\ pc' = "isfile"
    /\ UNCHANGED <<isfile, style_i, region_i, font, heap, opened, loaded, written, merges, trace>>

\* line 121: the style list is exhausted, rename_fonts returns
Return ==
    /\ pc = "for"
    /\ style_i > Len(_STYLES)
    /\ pc' = "done"
    /\ UNCHANGED <<isfile, style_i, region_i, font, heap, ttf_paths, opened, loaded,
                   written, merges, log, trace>>

\* (a missing input file that ends the loop instead of continuing it)
SkipMissingBreaks ==
    /\ pc = "isfile"
    /\ font_path(style) \notin isfile
    /\ log' = Append(log, [level |-> "error",
                           msg |-> "Cannot find font file " \o font_path(style)
                                   \o ". Skipping style " \o style \o "."])
    /\ trace' = Append(trace, Event("skip", style, None))
    /\ style_i' = Len(_STYLES) + 1
    /\ pc' = "for"
    /\ UNCHANGED <<isfile, region_i, font, heap, ttf_paths, opened, loaded, written, merges>>

\* lines 125-129: the input file is missing: log an error and continue
SkipMissing ==
    /\ pc = "isfile"
    /\ font_path(style) \notin isfile
    /\ log' = Append(log, [level |-> "error",
                           msg |-> "Cannot find font file " \o font_path(style)
                                   \o ". Skipping style " \o style \o "."])
    /\ trace' = Append(trace, Event("skip", style, None))
    /\ style_i' = style_i + 1
    /\ pc' = "for"
    /\ UNCHANGED <<isfile, region_i, font, heap, ttf_paths, opened, loaded, written, merges>>

\* lines 125, 131: the input file is there and fontforge.open loads it
OpenFont ==
    /\ pc = "isfile"
    /\ font_path(style) \in isfile
    /\ \E f \in InputFonts :
          /\ font' = FontRef(font_path(style))
          /\ heap' = (FontRef(font_path(style)) :> f) @@ heap
          /\ loaded' = <<f>>
    /\ opened' = Append(opened, font_path(style))
    /\ trace' = Append(trace, Event("open", style, None))
    /\ pc' = "gasp"
    /\ UNCHANGED <<isfile, style_i, region_i, ttf_paths, written, merges, log>>

\* line 131: fontforge.open raises; nothing catches it
OpenFontRaises ==
    /\ pc = "isfile"
    /\ font_path(style) \in isfile
    /\ opened' = Append(opened, font_path(style))
    /\ trace' = Append(trace, Event("raise", style, None))
    /\ pc' = "raised"
    /\ UNCHANGED <<loaded, isfile, style_i, region_i, font, heap, ttf_paths, written, merges, log>>

\* line 132, and line 134 entering the region loop
RemoveGasp ==
    /\ pc = "gasp"
    /\ heap' = [heap EXCEPT ![font] = remove_gasp(heap[font])]
    /\ trace' = Append(trace, Event("remove_gasp", style, None))
    /\ region_i' = 1
    /\ pc' = "regions"
    /\ UNCHANGED <<isfile, style_i, font, ttf_paths, opened, loaded, written, merges, log>>

\* lines 134-135: the inner for statement takes the next region and the font is renamed
SetFontName ==
    /\ pc = "regions"
    /\ region_i <= Len(_REGIONS)
    /\ heap' = [heap EXCEPT ![font] = set_font_name(heap[font], region, style)]
    /\ trace' = Append(trace, Event("set_font_name", style, str(region)))
    /\ pc' = "generate"
    /\ UNCHANGED <<isfile, style_i, region_i, font, ttf_paths, opened, loaded, written, merges, log>>

\* lines 138-142: the output path is appended to ttf_paths and the font is exported
Generate ==
    /\ pc = "generate"
    /\ ttf_paths' = Append(ttf_paths, output_font_path(region, style))
    /\ written' = Append(written, [path |-> output_font_path(region, style),
                                   content |-> TtfFile(heap[font])])
    /\ trace' = Append(trace, Event("generate", style, str(region)))
    /\ region_i' = region_i + 1
    /\ pc' = "regions"
    /\ UNCHANGED <<isfile, style_i, font, heap, opened, loaded, merges, log>>

\* (a failed export that is caught and logged, after which the loop goes on)
GenerateRaisesCaught ==
    /\ pc = "generate"
    /\ ttf_paths' = Append(ttf_paths, output_font_path(region, style))
    /\ trace' = Append(trace, Event("raise", style, str(region)))
    /\ log' = Append(log, [level |-> "error", msg |-> "Cannot export " \o style \o "."])
    /\ region_i' = region_i + 1
    /\ pc' = "regions"
    /\ UNCHANGED <<isfile, style_i, font, heap, opened, loaded, written, merges>>

\* line 142: font.generate raises; nothing catches it.  Whether the library
\* leaves a partly written file behind is not decided by the script.
GenerateRaises ==
    /\ pc = "generate"
    /\ ttf_paths' = Append(ttf_paths, output_font_path(region, style))
    /\ \/ UNCHANGED written
       \/ written' = Append(written, [path |-> output_font_path(region, style),
                                      content |-> PartialFile])
    /\ trace' = Append(trace, Event("raise", style, str(region)))
    /\ pc' = "raised"
    /\ UNCHANGED <<isfile, style_i, region_i, font, heap, opened, loaded, merges, log>>

\* (a region loop that can be left after the first export)
DelFontEarly ==
    /\ pc = "regions"
    /\ region_i > 1
    /\ heap' = [r \in DOMAIN heap \ {font} |-> heap[r]]
    /\ font' = None
    /\ trace' = Append(trace, Event("del", style, None))
    /\ pc' = "ttc"
    /\ UNCHANGED <<isfile, style_i, region_i, ttf_paths, opened, loaded, written, merges, log>>

\* (a loop end that unbinds the name but keeps the font object alive)
DelFontLeaks ==
    /\ pc = "regions"
    /\ region_i > Len(_REGIONS)
    /\ font' = None
    /\ trace' = Append(trace, Event("del", style, None))
    /\ pc' = "ttc"
    /\ UNCHANGED <<isfile, style_i, region_i, heap, ttf_paths, opened, loaded, written,
                   merges, log>>

\* lines 134, 144-145: the region list is exhausted; del font drops the only
\* reference to the font object and gc.collect() runs
DelFont ==
    /\ pc = "regions"
    /\ region_i > Len(_REGIONS)
    /\ heap' = [r \in DOMAIN heap \ {font} |-> heap[r]]
    /\ font' = None
    /\ trace' = Append(trace, Event("del", style, None))
    /\ pc' = "ttc"
    /\ UNCHANGED <<isfile, style_i, region_i, ttf_paths, opened, loaded, written, merges, log>>

\* lines 147-152 and make_ttc: log, build the arguments, run otf2otc, which
\* writes the collection to the path after -o
MakeTtc ==
    /\ pc = "ttc"
    /\ log' = Append(log, [level |-> "info",
                           msg |-> "Generating ttc file for style " \o style
                                   \o ". Ttc file will be exported to: "
                                   \o ttc_path(style) \o "."])
    /\ merges' = Append(merges, make_ttc_args(ttf_paths, ttc_path(style)))
    /\ written' = Append(written, [path |-> ttc_path(style),
                                   content |-> TtcFile(ttf_paths)])
    /\ trace' = Append(trace, Event("make_ttc", style, None))
    /\ style_i' = style_i + 1
    /\ pc' = "for"
    /\ UNCHANGED <<isfile, region_i, font, heap, ttf_paths, opened, loaded>>

\* line 114: run_otf2otc raises; nothing catches it
MakeTtcRaises ==
    /\ pc = "ttc"
    /\ log' = Append(log, [level |-> "info",
                           msg |-> "Generating ttc file for style " \o style
                                   \o ". Ttc file will be exported to: "
                                   \o ttc_path(style) \o "."])
    /\ merges' = Append(merges, make_ttc_args(ttf_paths, ttc_path(style)))
    /\ \/ UNCHANGED written
       \/ written' = Append(written, [path |-> ttc_path(style), content |-> PartialFile])
    /\ trace' = Append(trace, Event("raise", style, None))
    /\ pc' = "raised"
    /\ UNCHANGED <<isfile, style_i, region_i, font, heap, ttf_paths, opened, loaded>>

Next ==
    \/ NextStyle
    \/ Return
    \/ SkipMissing
    \/ OpenFont
    \/ OpenFontRaises
    \/ RemoveGasp
    \/ SetFontName
    \/ Generate
    \/ GenerateRaises
    \/ DelFont
    \/ MakeTtc
    \/ MakeTtcRaises

Spec == Init /\ [][Next]_vars

-----------------------------------------------------------------------------
(* The names the claims use, written out as the specification states them *)

StyleList == <<"Regular", "Thin", "Light", "Medium", "Bold", "Black">>
RegionList == <<"JP", "KR", "SC", "TC", "HK">>
RegionInFileName == <<"jp", "kr", "sc", "tc", "hk">>

StyleNo(s) == CHOOSE k \in DOMAIN StyleList : StyleList[k] = s
RegionNo(r) == CHOOSE k \in DOMAIN RegionList : RegionList[k] = r

InputOf(s) == "./input/" \o s \o ".ttf"
TtfOf(k, s) == "./output/ttf/NotoSansCJK" \o RegionInFileName[k] \o "-" \o s \o ".ttf"
TtcOf(s) == "./output/ttc/NotoSansCJK-" \o s \o ".ttc"

Range(q) == {q[k] : k \in DOMAIN q}
Present == {s \in Range(StyleList) : InputOf(s) \in isfile}
Missing == Range(StyleList) \ Present
WritesAt(p) == {k \in DOMAIN written : written[k].path = p}
OutputsOf(s) == {TtfOf(k, s) : k \in DOMAIN RegionList} \cup {TtcOf(s)}

-----------------------------------------------------------------------------
\* C1: when rename_fonts has returned (no library call raised), every style
\* whose input file exists has, for every region, exactly one TTF written at
\* ./output/ttf/NotoSansCJK<region in lower case>-<Style>.ttf and exactly one
\* TTC written at ./output/ttc/NotoSansCJK-<Style>.ttc; nothing is written at
\* any other path; the files opened are exactly the ./input/<Style>.ttf of
\* the styles whose file exists.
C1_FilesOfARun ==
    pc = "done" =>
        /\ \A s \in Present :
              /\ \A k \in DOMAIN RegionList :
                    /\ Cardinality(WritesAt(TtfOf(k, s))) = 1
                    /\ \A w \in WritesAt(TtfOf(k, s)) : written[w].content.kind = "ttf"
              /\ Cardinality(WritesAt(TtcOf(s))) = 1
              /\ \A w \in WritesAt(TtcOf(s)) : written[w].content.kind = "ttc"
        /\ \A w \in DOMAIN written : \E s \in Present : written[w].path \in OutputsOf(s)
        /\ Range(opened) = {InputOf(s) : s \in Present}
        /\ Len(opened) = Cardinality(Present)

\* a finished run that processed some styles and skipped others
C1_Witness ==
    /\ pc = "done"
    /\ Cardinality(Present) >= 2
    /\ Missing # {}
    /\ Len(written) >= 12

-----------------------------------------------------------------------------
\* C6: every call of the merge tool has the arguments -o, the TTC path of one
\* processed style S, then exactly the five TTF paths of S in the order JP,
\* KR, SC, TC, HK, each of them exported once before the call; no style is
\* merged twice; and when rename_fonts has returned every style whose input
\* exists has been merged.
C6_MergeArguments ==
    /\ \A m \in DOMAIN merges :
          \E s \in Present :
             /\ merges[m] = <<"-o", TtcOf(s)>> \o [k \in DOMAIN RegionList |-> TtfOf(k, s)]
             /\ \A k \in DOMAIN RegionList :
                   /\ Cardinality(WritesAt(TtfOf(k, s))) = 1
                   /\ \A w \in WritesAt(TtfOf(k, s)) : written[w].content.kind = "ttf"
    /\ \A m, n \in DOMAIN merges : merges[m][2] = merges[n][2] => m = n
    /\ pc = "done" => \A s \in Present : \E m \in DOMAIN merges : merges[m][2] = TtcOf(s)

\* a second style is being merged after an earlier style was skipped
C6_Witness ==
    /\ Len(merges) >= 2
    /\ \E k \in DOMAIN trace : trace[k].op = "skip"
    /\ trace[Len(trace)].op = "make_ttc"

-----------------------------------------------------------------------------
\* C5: the steps of a run follow the style list and, within a style, the
\* region list.  Every export of (S, R) comes right after the renaming for
\* (S, R), and after a load of S with only steps of S in between; a merge of
\* S comes after one export of S for each of the five regions, in list order;
\* and every step after the merge of S belongs to a later style (the styles
\* of the steps never go back in the list, and the step right after a merge
\* is of a later style).
C5_LinearOrder ==
    /\ \A i \in DOMAIN trace :
          i > 1 => StyleNo(trace[i - 1].style) <= StyleNo(trace[i].style)
    /\ \A i \in DOMAIN trace :
          trace[i].op = "generate" =>
             /\ i > 1
             /\ trace[i - 1] = Event("set_font_name", trace[i].style, trace[i].region)
             /\ \E j \in 1 .. (i - 1) :
                   /\ trace[j] = Event("open", trace[i].style, None)
                   /\ \A m \in j .. i : trace[m].style = trace[i].style
             /\ \A j \in 1 .. (i - 1) :
                   trace[j].op = "generate" /\ trace[j].style = trace[i].style
                      => RegionNo(trace[j].region) < RegionNo(trace[i].region)
    /\ \A i \in DOMAIN trace :
          trace[i].op = "make_ttc" =>
             /\ \A r \in Range(RegionList) :
                   \E j \in 1 .. (i - 1) : trace[j] = Event("generate", trace[i].style, r)
             /\ i < Len(trace) => StyleNo(trace[i + 1].style) > StyleNo(trace[i].style)

\* a merge has been followed by the export of a later style
C5_Witness ==
    \E i, j \in DOMAIN trace :
       /\ i < j
       /\ trace[i].op = "make_ttc"
       /\ trace[j].op = "generate"

-----------------------------------------------------------------------------
\* what holds of a style whose input file is missing
C2_State ==
    \A s \in Missing :
       /\ InputOf(s) \notin Range(opened)
       /\ FontRef(InputOf(s)) \notin DOMAIN heap
       /\ \A w \in DOMAIN written : written[w].path \notin OutputsOf(s)
       /\ \A m \in DOMAIN merges : Range(merges[m]) \cap OutputsOf(s) = {}
       /\ \A k \in DOMAIN trace : trace[k].style = s => trace[k].op = "skip"
       /\ StyleNo(s) < style_i =>
             Cardinality({k \in DOMAIN log :
                             log[k] = [level |-> "error",
                                       msg |-> "Cannot find font file " \o InputOf(s)
                                               \o ". Skipping style " \o s \o "."]}) = 1

\* what the step taken at a missing input file does
C2_Step ==
    (pc = "isfile" /\ StyleList[style_i] \in Missing) =>
        /\ pc' = "for"
        /\ style_i' = style_i + 1
        /\ UNCHANGED <<font, heap, opened, loaded, written, merges>>
        /\ Len(log') = Len(log) + 1
        /\ log'[Len(log')].level = "error"

\* C2: a style whose input file is missing is never opened, has no font
\* object, no written TTF or TTC and no merge call, and its only step is the
\* skip; once the loop is past it, one error naming it is logged.  The skip
\* itself changes nothing but the log and the loop position: the fonts, the
\* files opened and written and the merge calls are as before, and the loop
\* is at the next style.
C2_MissingInputIsSkipped == [](C2_State) /\ [][C2_Step]_vars

\* a style was skipped and a later style has been merged
C2_Witness ==
    \E i, j \in DOMAIN trace :
       /\ i < j
       /\ trace[i].op = "skip"
       /\ trace[j].op = "make_ttc"

-----------------------------------------------------------------------------
\* a raise is the last step, and nothing is enabled after it
C3_State ==
    /\ \A k \in DOMAIN trace :
          trace[k].op = "raise" => k = Len(trace) /\ pc = "raised"
    /\ pc = "raised" => ~ENABLED Next

\* what a step that raises leaves behind
C3_Step ==
    pc' = "raised" =>
        /\ \A w \in DOMAIN written : w \in DOMAIN written' /\ written'[w] = written[w]
        /\ \A w \in DOMAIN written' \ DOMAIN written :
              \A v \in DOMAIN written : written[v].path # written'[w].path
        /\ \A k \in DOMAIN log' \ DOMAIN log : log'[k].level # "error"

\* C3: a library call that raises ends the run: it is the last step, no step
\* of the program can follow it, it is not logged as an error, and the files
\* written before it are still there with the content they had (the failing
\* call may at most leave a file at its own path, which no earlier step
\* wrote).
C3_FailureEndsTheRun == [](C3_State) /\ [][C3_Step]_vars

\* an export raised after files were written, with regions and styles left
C3_Witness ==
    /\ pc = "raised"
    /\ trace[Len(trace)].region # None
    /\ Len(written) >= 7
    /\ region_i < Len(RegionList)
    /\ \E s \in Present : StyleNo(s) > style_i

-----------------------------------------------------------------------------
\* C4: at most one font object is live; between the last export of a style
\* and the load of the next (at the merge, at the loop head, at the test for
\* the input file, after the return) none is live; a live font object is the
\* one bound to the local variable and was loaded from the current style's
\* input file.
C4_OneFontAtATime ==
    /\ Cardinality(DOMAIN heap) <= 1
    /\ pc \in {"for", "isfile", "ttc", "done"} => DOMAIN heap = {} /\ font = None
    /\ DOMAIN heap # {} =>
          /\ DOMAIN heap = {font}
          /\ opened[Len(opened)] = InputOf(StyleList[style_i])
    /\ Len(opened) <= Cardinality(Present)

\* the font of a second style is live, after a style was skipped
C4_Witness ==
    /\ Len(opened) >= 2
    /\ DOMAIN heap # {}
    /\ \E k \in DOMAIN trace : trace[k].op = "skip"

-----------------------------------------------------------------------------
(* The name table of the font bound to the local variable *)

NameEntries(f, id) == {f.sfnt_names[k][3] : k \in {n \in DOMAIN f.sfnt_names : f.sfnt_names[n][2] = id}}
Renamed == pc = "generate"
CurStyle == StyleList[style_i]
CurRegion == RegionList[region_i]

\* C7: after set_font_name, for Regular and Bold the Family is
\* 'Noto Sans CJK <region>', the SubFamily is the style and there is no
\* Preferred Family and no Preferred Styles entry; for every other style the
\* Family is 'Noto Sans CJK <region> <style>', the SubFamily is 'Regular',
\* Preferred Family is 'Noto Sans CJK <region>' and Preferred Styles is the
\* style.
C7_FamilyAndSubFamily ==
    Renamed =>
        LET f == heap[font] IN
        IF CurStyle \in {"Regular", "Bold"}
        THEN /\ f.familyname = "Noto Sans CJK " \o CurRegion
             /\ NameEntries(f, "Family") = {"Noto Sans CJK " \o CurRegion}
             /\ NameEntries(f, "SubFamily") = {CurStyle}
             /\ NameEntries(f, "Preferred Family") = {}
             /\ NameEntries(f, "Preferred Styles") = {}
        ELSE /\ f.familyname = "Noto Sans CJK " \o CurRegion \o " " \o CurStyle
             /\ NameEntries(f, "Family") = {"Noto Sans CJK " \o CurRegion \o " " \o CurStyle}
             /\ NameEntries(f, "SubFamily") = {"Regular"}
             /\ NameEntries(f, "Preferred Family") = {"Noto Sans CJK " \o CurRegion}
             /\ NameEntries(f, "Preferred Styles") = {CurStyle}

\* Bold has been renamed for a region, and before it a style that is neither
\* Regular nor Bold was exported
C7_Witness ==
    /\ Renamed
    /\ CurStyle = "Bold"
    /\ \E k \in DOMAIN trace : trace[k].op = "generate" /\ trace[k].style = "Medium"

-----------------------------------------------------------------------------
\* C8: after set_font_name the full name is 'Noto Sans CJK <region>' for
\* Regular and 'Noto Sans CJK <region> <style>' for every other style, Bold
\* included, and the Fullname entry of the name table is that full name.
C8_FullName ==
    Renamed =>
        LET f == heap[font]
            expected == IF CurStyle = "Regular"
                        THEN "Noto Sans CJK " \o CurRegion
                        ELSE "Noto Sans CJK " \o CurRegion \o " " \o CurStyle
        IN  /\ f.fullname = expected
            /\ NameEntries(f, "Fullname") = {expected}

\* Bold has been renamed for the last region, and Regular was exported
C8_Witness ==
    /\ Renamed
    /\ CurStyle = "Bold"
    /\ CurRegion = "HK"
    /\ \E k \in DOMAIN trace : trace[k].op = "generate" /\ trace[k].style = "Regular"

-----------------------------------------------------------------------------
\* C9: every exported TTF has an empty gasp table; the step after a load is
\* the one remove_gasp of that style; and from then to the end of the
\* style's exports the font's gasp table is empty.
C9_NoGasp ==
    /\ \A w \in DOMAIN written :
          written[w].content.kind = "ttf" => written[w].content.font.gasp = <<>>
    /\ \A k \in DOMAIN trace :
          /\ (trace[k].op = "open" /\ k < Len(trace))
                => trace[k + 1] = Event("remove_gasp", trace[k].style, None)
          /\ trace[k].op = "remove_gasp"
                => k > 1 /\ trace[k - 1] = Event("open", trace[k].style, None)
    /\ pc \in {"regions", "generate"} => heap[font].gasp = <<>>

\* a font that came with a gasp table has been exported
C9_Witness ==
    /\ pc = "regions"
    /\ region_i > 1
    /\ loaded[1].gasp # <<>>
    /\ written[Len(written)].content.kind = "ttf"

-----------------------------------------------------------------------------
(* The naming metadata of a font: what set_font_name writes *)

Naming(f) == [fontname |-> f.fontname, fullname |-> f.fullname,
              familyname |-> f.familyname, version |-> f.version,
              copyright |-> f.copyright, sfnt_names |-> f.sfnt_names]

\* C10: the naming metadata of the font at an export of (S, R) is what
\* set_font_name gives on a font just loaded, whichever input font that is
\* and whichever regions were renamed before: it is the same for the font as
\* loaded for S and for every other input font, and the exported file holds
\* it.
C10_NamingAsIfFreshlyLoaded ==
    /\ Renamed =>
          /\ Naming(heap[font]) = Naming(set_font_name(loaded[1], _REGIONS[region_i], CurStyle))
          /\ \A f0 \in InputFonts :
                Naming(heap[font]) = Naming(set_font_name(f0, _REGIONS[region_i], CurStyle))
          /\ \A k \in DOMAIN heap[font].sfnt_names :
                /\ heap[font].sfnt_names[k][1] = "English (US)"
                /\ \A n \in DOMAIN heap[font].sfnt_names :
                      heap[font].sfnt_names[n][2] = heap[font].sfnt_names[k][2] => n = k
    /\ (pc = "regions" /\ region_i > 1) =>
          /\ written[Len(written)].content.kind = "ttf"
          /\ Naming(written[Len(written)].content.font) = Naming(heap[font])

\* a later region of a plain style has been renamed on a font that came with
\* Preferred entries and was renamed for earlier regions
C10_Witness ==
    /\ Renamed
    /\ region_i >= 3
    /\ CurStyle \in {"Regular", "Bold"}
    /\ NameEntries(loaded[1], "Preferred Family") # {}

====
